---- MODULE Spec2Model ----
(***************************************************************************)
(* sensible-proxy: a protocol-sniffing TCP proxy.  The model covers the    *)
(* TLS ClientHello sniffer, the HTTP Host sniffer, the per-connection      *)
(* orchestration (sniff, whitelist check, dial, replay, splice) and the    *)
(* whitelist store shared with the refresher.                              *)
(*                                                                         *)
(* Bytes are integers 0..255, byte strings are sequences of bytes.         *)
(***************************************************************************)
EXTENDS Integers, Sequences, FiniteSets, TLC

\* ------------------------------------------------------------------ bounds
\* Longest server name a generated client sends.
MaxName == 2
\* Most extensions a generated ClientHello carries in front of the one
\* under test.
MaxBefore == 1
\* Number of trailing bytes of a client stream at which the stream may be
\* split into two TCP segments (it may also be split inside the 5-byte
\* record header).
MaxTail == 4

\* ------------------------------------------------------- program constants
\* 0x16, the TLS record type "handshake".
Handshake == 22
\* 0x1, the handshake type "ClientHello".
ClientHello == 1
\* Lowest accepted protocol version {3,1}.
MinMajor == 3
MinMinor == 1
\* Bytes skipped after the handshake type: inner length (3), protocol version
\* (2) and random (4 + 28).
SkipLength == 3
SkipVersion == 2
SkipRandom == 32
\* Length of a whitelist entry, the hexadecimal SHA1 digest of a hostname.
DigestLen == 40

\* ------------------------------------------------------------ byte strings
Min(a, b) == IF a < b THEN a ELSE b

Rep(n, b) == [i \in 1..n |-> b]

U16(n) == <<n \div 256, n % 256>>

Take(s, n) == SubSeq(s, 1, Min(n, Len(s)))

Drop(s, n) == SubSeq(s, n + 1, Len(s))

\* A prefix test that takes capital and small letters for the same.
IsPrefixFoldsCase(p, s) ==
    /\ Len(p) <= Len(s)
    /\ \A i \in 1..Len(p) :
          LET lower(b) == IF b >= 65 /\ b <= 90 THEN b + 32 ELSE b
          IN  lower(s[i]) = lower(p[i])

IsPrefix(p, s) == Len(p) <= Len(s) /\ SubSeq(s, 1, Len(p)) = p

RECURSIVE Flatten(_)
Flatten(ss) == IF ss = <<>> THEN <<>> ELSE Head(ss) \o Flatten(Tail(ss))

\* "www." and the two port suffixes of the dial address.
Www == <<119, 119, 119, 46>>
Port80 == <<58, 56, 48>>
Port443 == <<58, 52, 52, 51>>

\* Hostnames the generated clients ask for: "b", "ba", "bab", ...
Name(k) == [i \in 1..k |-> IF i % 2 = 1 THEN 98 ELSE 97]
Names == {Name(k) : k \in 1..MaxName}

\* --------------------------------------------------- generated TLS clients
\* One extension as the client encodes it: type, declared data length, data.
Ext(type, d, data) == U16(type) \o U16(d) \o data

\* The data of a server_name extension: list length, name type, name length
\* and the name.
SNIData(nameType, nameLen, name) ==
    U16(Len(name) + 3) \o <<nameType>> \o U16(nameLen) \o name

\* A well-formed server_name extension holding the single host_name `name`.
SNIExt(name) == Ext(0, Len(name) + 5, SNIData(0, Len(name), name))

\* An extension of another type (ec_point_formats).
OtherExt == Ext(11, 2, <<1, 0>>)

\* The body of a handshake record: a ClientHello with session id `sid` and
\* the extensions block `block` (empty when the hello has no extensions).
Hello(hsType, sid, block) ==
    <<hsType>> \o <<0, 0, 0>> \o <<3, 3>> \o Rep(32, 170)
        \o <<Len(sid)>> \o sid \o U16(2) \o <<0, 47>> \o <<1, 0>> \o block

ExtBlock(exts) == U16(Len(Flatten(exts))) \o Flatten(exts)

Record(type, major, minor, body) ==
    <<type, major, minor>> \o U16(Len(body)) \o body

\* Extension lists of well-formed hellos that name exactly one host:
\* other extensions in front, the server_name extension, maybe one behind.
NamedLists ==
    { <<Rep(k, OtherExt) \o <<SNIExt(n)>> \o t, n>> :
        k \in 0..MaxBefore, n \in Names, t \in {<<>>, <<OtherExt>>} }

\* A well-formed ClientHello record naming one host, as tls.Dial sends it.
WellFormed ==
    { [bytes |-> Record(Handshake, 3, 1, Hello(ClientHello, sid, ExtBlock(l[1]))),
       name |-> l[2]] :
        sid \in {<<>>, <<9>>}, l \in NamedLists }

WellFormedRecords == { w.bytes : w \in WellFormed }

\* Extension lists of hellos that name no host, or that name it in an
\* unusual encoding.
OddLists ==
    { Rep(k, OtherExt) \o t :
        k \in 0..MaxBefore,
        t \in { <<>>,
                \* a server_name extension with an empty name
                <<SNIExt(<<>>)>>,
                <<SNIExt(<<>>), OtherExt>>,
                \* the name type is not host_name
                <<Ext(0, 6, SNIData(1, 1, Name(1)))>>,
                \* the declared data length is larger or smaller than 5+N
                <<Ext(0, 9, SNIData(0, 1, Name(1))), OtherExt>>,
                <<Ext(0, 2, SNIData(0, 1, Name(1))), OtherExt>>,
                \* the name length points beyond the record
                <<Ext(0, 6, SNIData(0, 300, Name(1)))>> } }

\* A padding extension (type 21) whose data, from its second byte on, reads
\* as a server_name extension naming "x".
HidingExt == Ext(21, 11, <<0>> \o Ext(0, 6, SNIData(0, 1, <<120>>)))

\* A hello whose server_name extension has an empty name, followed by that
\* padding extension.
HiddenNameRecord ==
    Record(Handshake, 3, 1,
           Hello(ClientHello, <<>>, ExtBlock(<<SNIExt(<<>>), HidingExt>>)))

OddRecords ==
    { Record(Handshake, 3, 1, Hello(ClientHello, <<>>, ExtBlock(l))) : l \in OddLists }
    \cup {HiddenNameRecord}
    \cup
    \* no extensions block at all; a session id length, cipher suite
    \* length or compression length that points beyond the record
    { Record(Handshake, 3, 1, Hello(ClientHello, <<>>, <<>>)),
      Record(Handshake, 3, 1, Hello(2, <<>>, ExtBlock(<<SNIExt(Name(1))>>))),
      Record(Handshake, 3, 1, <<1, 0, 0, 0, 3, 3>> \o Rep(32, 170) \o <<200>>),
      Record(Handshake, 3, 1, <<1, 0, 0, 0, 3, 3>> \o Rep(32, 170) \o <<0, 1, 0, 0, 47>>),
      Record(Handshake, 3, 1, <<1, 0, 0, 0, 3, 3>> \o Rep(32, 170) \o <<0, 0, 2, 0, 47, 9>>) }

\* "127.0.0.1", and a well-formed record that names it.
Loopback == <<49, 50, 55, 46, 48, 46, 48, 46, 49>>
LoopbackRecord ==
    Record(Handshake, 3, 1, Hello(ClientHello, <<>>, ExtBlock(<<SNIExt(Loopback)>>)))

\* Records with another record type or protocol version.
HeaderRecords ==
    { Record(t, v[1], v[2], Hello(ClientHello, <<>>, ExtBlock(<<SNIExt(Name(1))>>))) :
        t \in {Handshake, 23},
        v \in {<<3, 1>>, <<3, 0>>, <<3, 3>>, <<2, 9>>, <<4, 0>>} }

\* One well-formed record cut short: the record length is what remains.
BaseBody == Hello(ClientHello, <<>>, ExtBlock(<<OtherExt, SNIExt(Name(1))>>))
TruncatedRecords ==
    { Record(Handshake, 3, 1, Take(BaseBody, k)) : k \in 0..Len(BaseBody) }

\* What a TLS client may send: a record, then maybe application bytes; or a
\* record whose announced bytes never all arrive.
TLSStreams ==
    { r \o t : r \in WellFormedRecords, t \in {<<>>, <<23, 9>>} }
    \cup OddRecords \cup HeaderRecords \cup TruncatedRecords \cup {LoopbackRecord}
    \cup { Take(r, Len(r) - 1) : r \in TruncatedRecords }
    \cup { <<>> }

\* Where a stream may be split into two TCP segments.
Cuts(s) == { k \in 0..Len(s) : k <= 5 \/ k >= Len(s) - MaxTail }

Segments(s, k) ==
    IF k = 0 \/ k = Len(s) THEN (IF s = <<>> THEN <<>> ELSE <<s>>)
    ELSE <<Take(s, k), Drop(s, k)>>

\* ------------------------------------------------------------------- state
VARIABLES
    kind,             \* "tls" or "http": the handler serving the connection
    sent,             \* every byte the client sends on the connection
    pending,          \* segments of `sent` still on their way to the proxy
    downIn,           \* bytes received on downstream and not read yet
    clientFin,        \* the client has closed its sending direction
    pc,               \* position of the handler
    firstByte, versionBytes, restLengthBytes, restLength, rest, current,
    hostname,         \* locals of handleHTTPSConnection / handleHTTPConnection
    iterations,       \* passes through the extension loop
    reader,           \* bytes held by the bufio.Reader, not consumed yet
    readLines,        \* lines captured by the HTTP sniffer
    approved,         \* the whitelist check has accepted the hostname
    upstream,         \* "nil", or "open" once the dial has succeeded
    upBroken,         \* a Write of the replay to upstream has failed
    dials,            \* addresses dialed, in order
    upOut,            \* bytes written to upstream, in order
    downOut,          \* bytes written to downstream, in order
    replayed,         \* number of bytes of upOut written by the replay
    upPending, upIn, upFin,   \* what the upstream server sends, as for the client
    closes,           \* number of Close calls per socket
    logs,             \* lines written to the log
    toUp, toDown,     \* the relay tasks: "idle", "copy", "close", "done"
    whitelist,        \* ConnectionProxy.whitelist
    debugLog,         \* the debugLog flag
    mutex,            \* "free", or the task holding the proxy's mutex
    storing,          \* <<list>> while SetWhiteList assigns the field, else <<>>
    refPc, refList,   \* the refresher task: position, list it has fetched
    fetched,          \* outcome of the last fetch: whether it failed, the body
    rdPc, rdHost, rdN, rdI, rdResult,   \* a connection task inside IsWhiteListed
    window,           \* snapshots that were current during that call
    sawEmpty,         \* the call began on an empty snapshot, no Set under way
    denied,           \* hostnames a finished call has returned false for
    gList,            \* the list GetWhiteList has returned last
    access,           \* the last access to the whitelist field
    ops,              \* refresh ticks and calls so far
    doPc,             \* position of doProxy: "listen", "accept", "report", "returned"
    exited,           \* main has received from errChan and called os.Exit(1)
    accepts,          \* passes through the accept loop so far
    listenLog,        \* lines doProxy has written to the log
    helper            \* the last call of a logging helper and what it returned

connVars == <<kind, sent, pending, downIn, clientFin, pc, firstByte, versionBytes,
              restLengthBytes, restLength, rest, current, hostname, iterations,
              reader, readLines, approved, upstream, upBroken, dials, upOut, downOut,
              replayed, upPending, upIn, upFin, closes, logs, toUp, toDown>>

storeVars == <<mutex, storing, refPc, refList, fetched, rdPc, rdHost, rdN, rdI,
               rdResult, window, sawEmpty, denied, gList, access, ops>>

procVars == <<doPc, exited, accepts, listenLog, helper>>

vars == <<connVars, whitelist, debugLog, storeVars, procVars>>

\* --------------------------------------------------------- whitelist store
\* The hexadecimal SHA1 digest of a hostname: DigestLen symbols, a different
\* digest for every hostname (the name, an end mark that is no byte, padding).
SHA1(h) ==
    [i \in 1..DigestLen |->
        IF i <= Len(h) THEN h[i] ELSE IF i = Len(h) + 1 THEN 256 ELSE 0]

\* The loop of IsWhiteListed over a list that does not change meanwhile.
RECURSIVE HashInList(_, _, _)
HashInList(hash, list, i) ==
    IF i > Len(list) THEN FALSE
    ELSE IF hash = list[i] THEN TRUE
    ELSE HashInList(hash, list, i + 1)

IsWhiteListed(list, h) ==
    IF Len(list) < 1 THEN TRUE ELSE HashInList(SHA1(h), list, 1)

\* Snapshots as getMockProxy builds them.
Snapshots == { <<>>, <<SHA1(Name(1))>>, <<SHA1(Loopback)>> }

\* ----------------------------------------------------------------- sockets
\* net.Conn.Read(p) with len(p) = n returns at once when n = 0, when bytes
\* have arrived, when the peer has closed or when the socket is closed here.
ReadReady(in, more, fin, closed, n) ==
    n = 0 \/ in # <<>> \/ closed \/ (more = <<>> /\ fin)

\* The error of that Read: end of stream, or use of a closed connection.
ReadFails(in, closed, n) == closed \/ (n > 0 /\ in = <<>>)

\* The buffer after the Read: the first bytes of p are overwritten by as many
\* bytes as have arrived, the others are untouched.
Filled(p, in) ==
    [i \in 1..Len(p) |-> IF i <= Len(in) THEN in[i] ELSE p[i]]

Line(type, msg, host) == [type |-> type, msg |-> msg, host |-> host]

DownClosed == closes.down > 0
UpClosed == closes.up > 0

\* ------------------------------------------------------------ environment
\* The next segment of the client's bytes reaches the proxy.
Arrive ==
    /\ pending # <<>>
    /\ downIn' = downIn \o Head(pending)
    /\ pending' = Tail(pending)
    /\ UNCHANGED <<upBroken, kind, sent, clientFin, pc, firstByte, versionBytes, restLengthBytes,
                   restLength, rest, current, hostname, iterations, reader, readLines,
                   approved, upstream, dials, upOut, downOut, replayed, upPending, upIn,
                   upFin, closes, logs, toUp, toDown, whitelist, debugLog, storeVars, procVars>>

\* The client closes its sending direction after its last byte.
ClientClose ==
    /\ pending = <<>>
    /\ ~clientFin
    /\ clientFin' = TRUE
    /\ UNCHANGED <<upBroken, kind, sent, pending, downIn, pc, firstByte, versionBytes,
                   restLengthBytes, restLength, rest, current, hostname, iterations,
                   reader, readLines, approved, upstream, dials, upOut, downOut,
                   replayed, upPending, upIn, upFin, closes, logs, toUp, toDown,
                   whitelist, debugLog, storeVars, procVars>>

\* The upstream server's next bytes reach the proxy.
UpstreamSend ==
    /\ upstream = "open"
    /\ upPending # <<>>
    /\ upIn' = upIn \o Head(upPending)
    /\ upPending' = Tail(upPending)
    /\ UNCHANGED <<upBroken, kind, sent, pending, downIn, clientFin, pc, firstByte, versionBytes,
                   restLengthBytes, restLength, rest, current, hostname, iterations,
                   reader, readLines, approved, upstream, dials, upOut, downOut,
                   replayed, upFin, closes, logs, toUp, toDown, whitelist, debugLog, storeVars, procVars>>

\* The upstream server closes its sending direction.
UpstreamClose ==
    /\ upstream = "open"
    /\ upPending = <<>>
    /\ ~upFin
    /\ upFin' = TRUE
    /\ UNCHANGED <<upBroken, kind, sent, pending, downIn, clientFin, pc, firstByte, versionBytes,
                   restLengthBytes, restLength, rest, current, hostname, iterations,
                   reader, readLines, approved, upstream, dials, upOut, downOut,
                   replayed, upPending, upIn, closes, logs, toUp, toDown, whitelist,
                   debugLog, storeVars, procVars>>

\* ------------------------------------------------- handleHTTPSConnection
\* A failure that is logged while the handler goes on to the next stage.
CloseAndLogGoesOn(msg) ==
    /\ closes' = [closes EXCEPT !.down = @ + 1]
    /\ logs' = Append(logs, Line("", msg, <<>>))
    /\ pc' = "whitelist"

\* The handler returns after downstream.Close() and one log line.
CloseAndLog(msg) ==
    /\ closes' = [closes EXCEPT !.down = @ + 1]
    /\ logs' = Append(logs, Line("", msg, <<>>))
    /\ pc' = "done"

\* The handler returns after one log line, leaving downstream as it is.
LogAndReturn(msg) ==
    /\ logs' = Append(logs, Line("", msg, <<>>))
    /\ pc' = "done"
    /\ UNCHANGED closes

\* Read one byte, the record type, which must be 0x16.
TLSReadFirstByte ==
    /\ pc = "t_first"
    /\ ReadReady(downIn, pending, clientFin, DownClosed, 1)
    /\ firstByte' = Filled(firstByte, downIn)
    /\ downIn' = Drop(downIn, 1)
    /\ IF ReadFails(downIn, DownClosed, 1)
         THEN CloseAndLog("TLS header parsing problem - couldn't read first byte.")
       ELSE IF firstByte'[1] # Handshake
         THEN CloseAndLog("TLS header parsing problem - not TLS.")
       ELSE pc' = "t_version" /\ UNCHANGED <<closes, logs>>
    /\ UNCHANGED <<upBroken, kind, sent, pending, clientFin, versionBytes, restLengthBytes,
                   restLength, rest, current, hostname, iterations, reader, readLines,
                   approved, upstream, dials, upOut, downOut, replayed, upPending,
                   upIn, upFin, toUp, toDown, whitelist, debugLog, storeVars, procVars>>

\* A version check that looks at the major version only.
VersionTooOldByMajor(v) == v[1] < MinMajor

VersionTooOld(v) == v[1] < MinMajor \/ (v[1] = MinMajor /\ v[2] < MinMinor)

\* Read the two version bytes, which must be at least {3,1}.
TLSReadVersion ==
    /\ pc = "t_version"
    /\ ReadReady(downIn, pending, clientFin, DownClosed, 2)
    /\ versionBytes' = Filled(versionBytes, downIn)
    /\ downIn' = Drop(downIn, 2)
    /\ IF ReadFails(downIn, DownClosed, 2)
         THEN CloseAndLog("TLS header parsing problem - couldn't read version bytes.")
       ELSE IF VersionTooOld(versionBytes')
         THEN CloseAndLog("TLS header parsing problem - SSL < 3.1, SNI not supported.")
       ELSE pc' = "t_length" /\ UNCHANGED <<closes, logs>>
    /\ UNCHANGED <<upBroken, kind, sent, pending, clientFin, firstByte, restLengthBytes,
                   restLength, rest, current, hostname, iterations, reader, readLines,
                   approved, upstream, dials, upOut, downOut, replayed, upPending,
                   upIn, upFin, toUp, toDown, whitelist, debugLog, storeVars, procVars>>

\* Read the two length bytes and allocate the buffer for the record body.
TLSReadLength ==
    /\ pc = "t_length"
    /\ ReadReady(downIn, pending, clientFin, DownClosed, 2)
    /\ restLengthBytes' = Filled(restLengthBytes, downIn)
    /\ downIn' = Drop(downIn, 2)
    /\ IF ReadFails(downIn, DownClosed, 2)
         THEN /\ CloseAndLog("TLS header parsing problem - couldn't read restLength bytes:")
              /\ UNCHANGED <<restLength, rest>>
         ELSE /\ restLength' = restLengthBytes'[1] * 256 + restLengthBytes'[2]
              /\ rest' = Rep(restLength', 0)
              /\ pc' = "t_rest"
              /\ UNCHANGED <<closes, logs>>
    /\ UNCHANGED <<upBroken, kind, sent, pending, clientFin, firstByte, versionBytes, current,
                   hostname, iterations, reader, readLines, approved, upstream, dials,
                   upOut, downOut, replayed, upPending, upIn, upFin, toUp, toDown,
                   whitelist, debugLog, storeVars, procVars>>

\* One Read into the body buffer; only its error is looked at.
TLSReadRest ==
    /\ pc = "t_rest"
    /\ ReadReady(downIn, pending, clientFin, DownClosed, restLength)
    /\ rest' = Filled(rest, downIn)
    /\ downIn' = Drop(downIn, restLength)
    /\ IF ReadFails(downIn, DownClosed, restLength)
         THEN CloseAndLog("TLS header parsing problem - couldn't read rest of bytes:")
         ELSE pc' = "t_hello" /\ UNCHANGED <<closes, logs>>
    /\ UNCHANGED <<upBroken, kind, sent, pending, clientFin, firstByte, versionBytes,
                   restLengthBytes, restLength, current, hostname, iterations, reader,
                   readLines, approved, upstream, dials, upOut, downOut, replayed,
                   upPending, upIn, upFin, toUp, toDown, whitelist, debugLog, storeVars, procVars>>

\* rest[i] of the code (indices from 0) and what the parse steps yield.
At(r, i) == r[i + 1]

Parsed(out, cur, host) == [out |-> out, current |-> cur, hostname |-> host]

\* From the handshake type to the check for an extensions block.  An index
\* outside the buffer is a run-time panic.
HelloParse(r) ==
    LET n == Len(r)
        c1 == 1 + SkipLength + SkipVersion + SkipRandom
    IN  IF n = 0 THEN Parsed("panic", 0, <<>>)
        ELSE IF At(r, 0) # ClientHello THEN Parsed("notClientHello", 1, <<>>)
        ELSE IF c1 >= n THEN Parsed("panic", c1, <<>>)
        ELSE LET c2 == c1 + 1 + At(r, c1)
             IN  IF c2 + 1 >= n THEN Parsed("panic", c2, <<>>)
                 ELSE LET c3 == c2 + 2 + (At(r, c2) * 256 + At(r, c2 + 1))
                      IN  IF c3 >= n THEN Parsed("panic", c3, <<>>)
                          ELSE LET c4 == c3 + 1 + At(r, c3)
                               IN  IF c4 > n THEN Parsed("noExtensions", c4, <<>>)
                                   ELSE Parsed("ok", c4 + 2, <<>>)

\* A server_name branch that takes the name's length from the declared
\* length of the extension data.
ServerNameByDataLength(r, c, d) ==
    LET n == Len(r)
        c3 == c + 2
    IN  IF c3 >= n THEN Parsed("panic", c3, <<>>)
        ELSE IF At(r, c3) # 0 THEN Parsed("notHostname", c3 + 1, <<>>)
        ELSE IF c3 + 2 >= n THEN Parsed("panic", c3 + 1, <<>>)
        ELSE LET c5 == c3 + 3
             IN  Parsed("ok", c5 + d, SubSeq(r, c5 + 1, Min(c5 + d - 5, n)))

\* The server_name branch of the loop body, entered behind the 4 bytes of
\* extension type and length: `c` is the cursor, `d` the declared length.
ServerName(r, c, d) ==
    LET n == Len(r)
        c3 == c + 2
    IN  IF c3 >= n THEN Parsed("panic", c3, <<>>)
        ELSE IF At(r, c3) # 0 THEN Parsed("notHostname", c3 + 1, <<>>)
        ELSE IF c3 + 2 >= n THEN Parsed("panic", c3 + 1, <<>>)
        ELSE LET nameLen == At(r, c3 + 1) * 256 + At(r, c3 + 2)
                 c5 == c3 + 3
             IN  IF c5 + nameLen > n THEN Parsed("panic", c5, <<>>)
                 ELSE Parsed("ok", c5 + d, SubSeq(r, c5 + 1, c5 + nameLen))

\* One pass that skips the data of an extension of another type but not the
\* four bytes of its type and length.
ExtStepSkipsDataOnly(r, cur) ==
    LET n == Len(r)
    IN  IF cur + 3 >= n THEN Parsed("panic", cur, <<>>)
        ELSE LET type == At(r, cur) * 256 + At(r, cur + 1)
                 d == At(r, cur + 2) * 256 + At(r, cur + 3)
             IN  IF type = 0 THEN ServerName(r, cur + 4, d)
                 ELSE Parsed("ok", cur + d, <<>>)

\* One pass that forgets to skip the data of an extension of another type.
ExtStepForgetsData(r, cur) ==
    LET n == Len(r)
    IN  IF cur + 3 >= n THEN Parsed("panic", cur, <<>>)
        ELSE LET type == At(r, cur) * 256 + At(r, cur + 1)
                 d == At(r, cur + 2) * 256 + At(r, cur + 3)
             IN  IF type = 0 THEN ServerName(r, cur + 4, d)
                 ELSE Parsed("ok", cur + 4, <<>>)

\* One pass through the extension loop at cursor `cur`.
ExtStep(r, cur) ==
    LET n == Len(r)
    IN  IF cur + 3 >= n THEN Parsed("panic", cur, <<>>)
        ELSE LET type == At(r, cur) * 256 + At(r, cur + 1)
                 d == At(r, cur + 2) * 256 + At(r, cur + 3)
             IN  IF type = 0 THEN ServerName(r, cur + 4, d)
                 ELSE Parsed("ok", cur + 4 + d, <<>>)

\* Handshake type, the skipped fields and the three length-prefixed fields.
TLSClientHello ==
    /\ pc = "t_hello"
    /\ LET p == HelloParse(rest)
       IN  /\ current' = p.current
           /\ CASE p.out = "panic" -> pc' = "panic" /\ UNCHANGED <<closes, logs>>
                [] p.out = "notClientHello" ->
                     CloseAndLog("TLS header parsing problem - not a ClientHello.")
                [] p.out = "noExtensions" ->
                     CloseAndLog("TLS header parsing problem - no extensions.")
                [] OTHER -> pc' = "t_ext" /\ UNCHANGED <<closes, logs>>
    /\ UNCHANGED <<upBroken, kind, sent, pending, downIn, clientFin, firstByte, versionBytes,
                   restLengthBytes, restLength, rest, hostname, iterations, reader,
                   readLines, approved, upstream, dials, upOut, downOut, replayed,
                   upPending, upIn, upFin, toUp, toDown, whitelist, debugLog, storeVars, procVars>>

\* One pass through the loop over the extensions.
TLSExtension ==
    /\ pc = "t_ext"
    /\ current < restLength /\ hostname = <<>>
    /\ LET p == ExtStep(rest, current)
       IN  /\ current' = p.current
           /\ hostname' = p.hostname
           /\ iterations' = iterations + 1
           /\ CASE p.out = "panic" -> pc' = "panic" /\ UNCHANGED <<closes, logs>>
                [] p.out = "notHostname" ->
                     LogAndReturn("TLS header parsing problem - not a hostname.")
                [] OTHER -> pc' = "t_ext" /\ UNCHANGED <<closes, logs>>
    /\ UNCHANGED <<upBroken, kind, sent, pending, downIn, clientFin, firstByte, versionBytes,
                   restLengthBytes, restLength, rest, reader, readLines, approved,
                   upstream, dials, upOut, downOut, replayed, upPending, upIn, upFin,
                   toUp, toDown, whitelist, debugLog, storeVars, procVars>>

\* The loop is left; without a hostname the handler returns.
TLSHostnameCheck ==
    /\ pc = "t_ext"
    /\ ~(current < restLength /\ hostname = <<>>)
    /\ IF hostname = <<>>
         THEN LogAndReturn("TLS header parsing problem - no hostname found.")
         ELSE pc' = "whitelist" /\ UNCHANGED <<closes, logs>>
    /\ UNCHANGED <<upBroken, kind, sent, pending, downIn, clientFin, firstByte, versionBytes,
                   restLengthBytes, restLength, rest, current, hostname, iterations,
                   reader, readLines, approved, upstream, dials, upOut, downOut,
                   replayed, upPending, upIn, upFin, toUp, toDown, whitelist, debugLog, storeVars, procVars>>

\* -------------------------------------------------- generated HTTP clients
CR == 13
LF == 10
\* Size of the buffer of bufio.NewReader.
BufSize == 4096

\* "Host: ", "host: b", "GET /" and "X: y".
HostPrefix == <<72, 111, 115, 116, 58, 32>>
LowerHostLine == <<104, 111, 115, 116, 58, 32, 98>>
RequestLine == <<71, 69, 84, 32, 47>>
OtherLine == <<88, 58, 32, 121>>

HostLine(name) == HostPrefix \o name

\* The header lines of a request: the request line, other headers, maybe a
\* Host line, then maybe the blank line and what follows it.
HTTPLines ==
    { <<RequestLine>> \o Rep(k, OtherLine) \o h \o t :
        k \in 0..MaxBefore,
        h \in { <<HostLine(n)>> : n \in Names \cup {<<>>} } \cup { <<LowerHostLine>>, <<>> },
        t \in { <<>>, << <<>> >>, << <<>>, HostLine(Name(1)) >>, << OtherLine, <<>> >> } }

RECURSIVE Joined(_, _)
Joined(lines, eol) ==
    IF lines = <<>> THEN <<>> ELSE Head(lines) \o eol \o Joined(Tail(lines), eol)

\* What an HTTP client may send: lines ended by CRLF or by LF alone, the
\* last line maybe cut short (the client closes in the middle of it).
HTTPStreams ==
    { Joined(l, eol) : l \in HTTPLines, eol \in { <<CR, LF>>, <<LF>> } }
    \cup { Take(Joined(l, <<CR, LF>>), Len(Joined(l, <<CR, LF>>)) - 2) : l \in HTTPLines }
    \cup { <<>> }

\* --------------------------------------------------- handleHTTPConnection
HasLF(s) == \E i \in 1..Len(s) : s[i] = LF

FirstLF(s) == CHOOSE i \in 1..Len(s) : s[i] = LF /\ \A j \in 1..(i - 1) : s[j] # LF

\* bufio.Reader.ReadLine on the buffered bytes: the line without its
\* "\n" or "\r\n", and the bytes left in the buffer.  A full buffer without
\* a line end and the bytes in front of the end of the stream are returned
\* as they are.
LineOf(buf) ==
    IF HasLF(buf)
      THEN LET k == FirstLF(buf)
               drop == IF k > 1 /\ buf[k - 1] = CR THEN 2 ELSE 1
           IN  [line |-> SubSeq(buf, 1, k - drop), left |-> Drop(buf, k)]
      ELSE [line |-> Take(buf, BufSize), left |-> Drop(buf, BufSize)]

\* ReadLine can return without reading the socket.
LineReady(buf) == HasLF(buf) \/ Len(buf) >= BufSize

\* ReadLine reads what has arrived into the buffer of the bufio.Reader.
HTTPFill ==
    /\ pc = "h_read"
    /\ ~LineReady(reader)
    /\ downIn # <<>>
    /\ reader' = reader \o Take(downIn, BufSize - Len(reader))
    /\ downIn' = Drop(downIn, BufSize - Len(reader))
    /\ UNCHANGED <<upBroken, kind, sent, pending, clientFin, pc, firstByte, versionBytes,
                   restLengthBytes, restLength, rest, current, hostname, iterations,
                   readLines, approved, upstream, dials, upOut, downOut, replayed,
                   upPending, upIn, upFin, closes, logs, toUp, toDown, whitelist,
                   debugLog, storeVars, procVars>>

\* strings.TrimPrefix(line, "Host: ") for a line with that prefix.
HostOf(line) == IF IsPrefix(HostPrefix, line) THEN Drop(line, Len(HostPrefix)) ELSE <<>>

\* One pass through the loop of the HTTP sniffer: a line is read and
\* captured; a blank line or a Host line ends the loop.
HTTPReadLine ==
    /\ pc = "h_read"
    /\ \/ LineReady(reader)
       \/ downIn = <<>> /\ pending = <<>> /\ clientFin
    /\ IF ~LineReady(reader) /\ reader = <<>>
         THEN /\ closes' = [closes EXCEPT !.down = @ + 1]
              /\ logs' = Append(logs, Line("", "Error reading from connection:", <<>>))
              /\ pc' = "done"
              /\ UNCHANGED <<reader, readLines, hostname>>
         ELSE LET r == LineOf(reader)
              IN  /\ reader' = r.left
                  /\ readLines' = Append(readLines, r.line)
                  /\ hostname' = HostOf(r.line)
                  /\ pc' = IF r.line = <<>> \/ IsPrefix(HostPrefix, r.line)
                             THEN "whitelist" ELSE "h_read"
                  /\ UNCHANGED <<closes, logs>>
    /\ UNCHANGED <<upBroken, kind, sent, pending, downIn, clientFin, firstByte, versionBytes,
                   restLengthBytes, restLength, rest, current, iterations, approved,
                   upstream, dials, upOut, downOut, replayed, upPending, upIn, upFin,
                   toUp, toDown, whitelist, debugLog, storeVars, procVars>>

\* ------------------------------------------------- ConnectionProxy logging
\* The helpers act on the pair of log and close counters, `st`.
DebugLine(st, msg, host) ==
    IF debugLog THEN Append(st.logs, Line("DEBUG", msg, host)) ELSE st.logs

\* ConnectionProxy.Close: an error of c.Close (the socket was closed before)
\* goes to LogDebug with no connection.
Close(st, sock) ==
    [closes |-> [st.closes EXCEPT ![sock] = @ + 1],
     logs |-> IF st.closes[sock] > 0
                THEN DebugLine(st, "Error when closing connection", <<>>)
                ELSE st.logs]

\* The state behind `if conn != nil { p.Close(conn) }` and the value the
\* helper returns; "nil" stands for no connection.
CloseIfNotNil(st, sock, ret) ==
    LET after == IF sock # "nil" THEN Close(st, sock)
                 ELSE [closes |-> st.closes, logs |-> st.logs]
    IN  [closes |-> after.closes, logs |-> after.logs, ret |-> ret]

\* A LogDebug that leaves the connection open when the flag is off.
LogDebugSilentKeepsOpen(st, msg, host, sock) ==
    IF debugLog
      THEN CloseIfNotNil([st EXCEPT !.logs = Append(@, Line("DEBUG", msg, host))],
                         sock, FALSE)
      ELSE [closes |-> st.closes, logs |-> st.logs, ret |-> FALSE]

LogError(st, msg, host, sock) ==
    CloseIfNotNil([st EXCEPT !.logs = Append(@, Line("ERROR", msg, host))], sock, FALSE)

LogDebug(st, msg, host, sock) ==
    CloseIfNotNil([st EXCEPT !.logs = DebugLine(st, msg, host)], sock, FALSE)

LogAccess(st, host) ==
    [closes |-> st.closes,
     logs |-> Append(st.logs, Line("ACCESS", "connected", host)),
     ret |-> TRUE]

\* ------------------------------------------- whitelist check, dial, replay
RemoteAddr == "client"

\* The sniffed hostname is checked against the current snapshot; a hostname
\* that is not listed ends the connection.
CheckWhiteList ==
    /\ pc = "whitelist"
    /\ IF IsWhiteListed(whitelist, hostname)
         THEN /\ approved' = TRUE
              /\ pc' = "dial"
              /\ UNCHANGED <<closes, logs>>
         ELSE LET st == LogDebug([closes |-> closes, logs |-> logs],
                                 "Hostname is not whitelisted", hostname, "down")
              IN  /\ closes' = st.closes
                  /\ logs' = st.logs
                  /\ pc' = "done"
                  /\ UNCHANGED approved
    /\ UNCHANGED <<upBroken, kind, sent, pending, downIn, clientFin, firstByte, versionBytes,
                   restLengthBytes, restLength, rest, current, hostname, iterations,
                   reader, readLines, upstream, dials, upOut, downOut, replayed,
                   upPending, upIn, upFin, toUp, toDown, whitelist, debugLog, storeVars, procVars>>

\* What the upstream server answers: nothing, or one segment.
Replies == { <<>>, << <<72, 84>> >> }

\* A dial whose error is not looked at: the handler goes on to the replay.
DialIgnoresError(port, ok) ==
    /\ logs' = Append(logs, Line("", RemoteAddr, hostname))
    /\ dials' = Append(dials, Www \o hostname \o port)
    /\ upstream' = IF ok THEN "open" ELSE "nil"
    /\ pc' = "replay"
    /\ UNCHANGED closes

\* A dial that is tried a second time when it fails.
DialRetries(port, ok) ==
    /\ logs' = Append(logs, Line("", RemoteAddr, hostname))
    /\ dials' = IF ok THEN Append(dials, Www \o hostname \o port)
                ELSE dials \o << Www \o hostname \o port, Www \o hostname \o port >>
    /\ upstream' = "open"
    /\ pc' = "replay"
    /\ UNCHANGED closes

\* A dial that takes a request without hostname for invalid.
DialRefusesEmptyHost(port, ok) ==
    IF hostname = <<>>
      THEN /\ logs' = Append(logs, Line("", "Error reading from connection:", <<>>))
           /\ closes' = [closes EXCEPT !.down = @ + 1]
           /\ pc' = "done"
           /\ UNCHANGED <<dials, upstream>>
      ELSE /\ dials' = Append(dials, Www \o hostname \o port)
           /\ logs' = Append(logs, Line("", RemoteAddr, hostname))
           /\ upstream' = IF ok THEN "open" ELSE "nil"
           /\ pc' = IF ok THEN "replay" ELSE "done"
           /\ closes' = [closes EXCEPT !.down = IF ok THEN @ ELSE @ + 1]

\* A failed dial after which downstream is left open.
DialFailureKeepsOpen(port, ok) ==
    /\ dials' = Append(dials, Www \o hostname \o port)
    /\ logs' = IF ok THEN Append(logs, Line("", RemoteAddr, hostname))
               ELSE logs \o << Line("", RemoteAddr, hostname),
                               Line("", "Couldn't connect to backend:", <<>>) >>
    /\ upstream' = IF ok THEN "open" ELSE "nil"
    /\ pc' = IF ok THEN "replay" ELSE "done"
    /\ UNCHANGED closes

\* The access line, then net.Dial("tcp", "www."+hostname+port); `ok` is
\* whether the dial succeeds.  A failed dial ends the connection.
Dial(port, ok) ==
    /\ dials' = Append(dials, Www \o hostname \o port)
    /\ IF ok
         THEN /\ logs' = Append(logs, Line("", RemoteAddr, hostname))
              /\ upstream' = "open"
              /\ pc' = "replay"
              /\ UNCHANGED closes
         ELSE /\ logs' = logs \o << Line("", RemoteAddr, hostname),
                                    Line("", "Couldn't connect to backend:", <<>>) >>
              /\ closes' = [closes EXCEPT !.down = @ + 1]
              /\ pc' = "done"
              /\ UNCHANGED upstream

HTTPDial ==
    /\ pc = "dial" /\ kind = "http"
    /\ \E ok \in BOOLEAN :
         /\ Dial(Port80, ok)
         /\ IF ok THEN upPending' \in Replies ELSE UNCHANGED upPending
    /\ UNCHANGED <<upBroken, kind, sent, pending, downIn, clientFin, firstByte, versionBytes,
                   restLengthBytes, restLength, rest, current, hostname, iterations,
                   reader, readLines, approved, upOut, downOut, replayed, upIn, upFin,
                   toUp, toDown, whitelist, debugLog, storeVars, procVars>>

TLSDial ==
    /\ pc = "dial" /\ kind = "tls"
    /\ \E ok \in BOOLEAN :
         /\ Dial(Port443, ok)
         /\ IF ok THEN upPending' \in Replies ELSE UNCHANGED upPending
    /\ UNCHANGED <<upBroken, kind, sent, pending, downIn, clientFin, firstByte, versionBytes,
                   restLengthBytes, restLength, rest, current, hostname, iterations,
                   reader, readLines, approved, upOut, downOut, replayed, upIn, upFin,
                   toUp, toDown, whitelist, debugLog, storeVars, procVars>>

\* Every captured line, each followed by "\n".
HTTPReplayBytes(lines) == Joined(lines, <<LF>>)

\* A replay that leaves its last chunk unwritten.
ReplayLeavesLastChunk(chunks, failAt) ==
    /\ upOut' = upOut \o Flatten(SubSeq(chunks, 1, Len(chunks) - 1))
    /\ upBroken' = FALSE
    /\ replayed' = Len(upOut')
    /\ pc' = "splice"

\* The Writes of a replay, chunk after chunk.  `failAt` is the Write that
\* fails first, 0 when none fails: the chunks before it are on the wire, the
\* error is not looked at and the handler goes on.
Replay(chunks, failAt) ==
    /\ upOut' = upOut \o Flatten(IF failAt = 0 THEN chunks
                                  ELSE SubSeq(chunks, 1, failAt - 1))
    /\ upBroken' = (failAt # 0)
    /\ replayed' = Len(upOut')
    /\ pc' = "splice"

\* The Writes at which a replay of `n` chunks may fail: none, or the first.
FailPoints(n) == IF n > 0 THEN {0, 1} ELSE {0}

\* Chunks that end every captured line but the last with "\n".
HTTPChunksLastLineOpen(lines) ==
    [i \in 1..(2 * Len(lines) - 1) |-> IF i % 2 = 1 THEN lines[(i + 1) \div 2] ELSE <<LF>>]

\* The chunks written for the captured lines: each line, then "\n".
HTTPChunks(lines) ==
    [i \in 1..(2 * Len(lines)) |-> IF i % 2 = 1 THEN lines[(i + 1) \div 2] ELSE <<LF>>]

\* The captured lines are written to upstream.
HTTPReplay ==
    /\ pc = "replay" /\ kind = "http"
    /\ \E failAt \in FailPoints(2 * Len(readLines)) :
         Replay(HTTPChunks(readLines), failAt)
    /\ UNCHANGED <<kind, sent, pending, downIn, clientFin, firstByte, versionBytes,
                   restLengthBytes, restLength, rest, current, hostname, iterations,
                   reader, readLines, approved, upstream, dials, downOut, upPending,
                   upIn, upFin, closes, logs, toUp, toDown, whitelist, debugLog, storeVars, procVars>>

\* The four buffers filled while sniffing are written to upstream.
TLSReplay ==
    /\ pc = "replay" /\ kind = "tls"
    /\ \E failAt \in FailPoints(4) :
         Replay(<<firstByte, versionBytes, restLengthBytes, rest>>, failAt)
    /\ UNCHANGED <<kind, sent, pending, downIn, clientFin, firstByte, versionBytes,
                   restLengthBytes, restLength, rest, current, hostname, iterations,
                   reader, readLines, approved, upstream, dials, downOut, upPending,
                   upIn, upFin, closes, logs, toUp, toDown, whitelist, debugLog, storeVars, procVars>>

\* The two relay tasks are started and the handler returns.
Splice ==
    /\ pc = "splice"
    /\ toUp' = "copy"
    /\ toDown' = "copy"
    /\ pc' = "done"
    /\ UNCHANGED <<upBroken, kind, sent, pending, downIn, clientFin, firstByte, versionBytes,
                   restLengthBytes, restLength, rest, current, hostname, iterations,
                   reader, readLines, approved, upstream, dials, upOut, downOut,
                   replayed, upPending, upIn, upFin, closes, logs, whitelist, debugLog, storeVars, procVars>>

\* ------------------------------------------------------------ copyAndClose
\* A copy that reads the socket and not the sniffer's reader.
FromSocketOnly == IF DownClosed THEN <<>> ELSE downIn

\* What io.Copy to upstream can read now: the bytes buffered by the HTTP
\* sniffer's reader, then what has arrived on the socket.
FromDownstream == reader \o (IF DownClosed THEN <<>> ELSE downIn)

\* io.Copy(upstream, downstream or reader): the bytes that can be read are
\* written to upstream; the end of the stream or an error ends the copy.
RelayUpCopy ==
    /\ toUp = "copy"
    /\ \/ FromDownstream # <<>>
       \/ DownClosed
       \/ pending = <<>> /\ clientFin
    /\ IF FromDownstream # <<>>
         THEN /\ reader' = <<>>
              /\ downIn' = IF DownClosed THEN downIn ELSE <<>>
              /\ IF UpClosed \/ upBroken
                   THEN toUp' = "close" /\ UNCHANGED upOut
                   ELSE upOut' = upOut \o FromDownstream /\ UNCHANGED toUp
         ELSE /\ toUp' = "close"
              /\ UNCHANGED <<reader, downIn, upOut>>
    /\ UNCHANGED <<upBroken, kind, sent, pending, clientFin, pc, firstByte, versionBytes,
                   restLengthBytes, restLength, rest, current, hostname, iterations,
                   readLines, approved, upstream, dials, downOut, replayed, upPending,
                   upIn, upFin, closes, logs, toDown, whitelist, debugLog, storeVars, procVars>>

\* A task that returns once the copy has returned, leaving upstream open.
RelayUpReturns ==
    /\ toUp = "close"
    /\ toUp' = "done"
    /\ UNCHANGED <<upBroken, kind, sent, pending, downIn, clientFin, pc, firstByte,
                   versionBytes, restLengthBytes, restLength, rest, current, hostname,
                   iterations, reader, readLines, approved, upstream, dials, upOut,
                   downOut, replayed, upPending, upIn, upFin, closes, logs, toDown,
                   whitelist, debugLog, storeVars, procVars>>

\* upstream.Close() once the copy has returned.
RelayUpClose ==
    /\ toUp = "close"
    /\ closes' = [closes EXCEPT !.up = @ + 1]
    /\ toUp' = "done"
    /\ UNCHANGED <<upBroken, kind, sent, pending, downIn, clientFin, pc, firstByte, versionBytes,
                   restLengthBytes, restLength, rest, current, hostname, iterations,
                   reader, readLines, approved, upstream, dials, upOut, downOut,
                   replayed, upPending, upIn, upFin, logs, toDown, whitelist, debugLog, storeVars, procVars>>

\* io.Copy(downstream, upstream).
RelayDownCopy ==
    /\ toDown = "copy"
    /\ \/ upIn # <<>>
       \/ UpClosed \/ upBroken
       \/ upPending = <<>> /\ upFin
    /\ IF upIn # <<>> /\ ~UpClosed /\ ~upBroken
         THEN /\ upIn' = <<>>
              /\ IF DownClosed
                   THEN toDown' = "close" /\ UNCHANGED downOut
                   ELSE downOut' = downOut \o upIn /\ UNCHANGED toDown
         ELSE /\ toDown' = "close"
              /\ UNCHANGED <<upIn, downOut>>
    /\ UNCHANGED <<upBroken, kind, sent, pending, downIn, clientFin, pc, firstByte, versionBytes,
                   restLengthBytes, restLength, rest, current, hostname, iterations,
                   reader, readLines, approved, upstream, dials, upOut, replayed,
                   upPending, upFin, closes, logs, toUp, whitelist, debugLog, storeVars, procVars>>

\* downstream.Close() once the copy has returned.
RelayDownClose ==
    /\ toDown = "close"
    /\ closes' = [closes EXCEPT !.down = @ + 1]
    /\ toDown' = "done"
    /\ UNCHANGED <<upBroken, kind, sent, pending, downIn, clientFin, pc, firstByte, versionBytes,
                   restLengthBytes, restLength, rest, current, hostname, iterations,
                   reader, readLines, approved, upstream, dials, upOut, downOut,
                   replayed, upPending, upIn, upFin, logs, toUp, whitelist, debugLog, storeVars, procVars>>

\* ---------------------------------------- whitelist store and refresher
\* Refresh ticks and calls of IsWhiteListed or GetWhiteList in one run.
MaxOps == 3

\* Lines of a fetched body: two digests, a line that is too short and one
\* that is too long.
ShortLine == <<110, 111, 116>>
LongLine == SHA1(Name(1)) \o <<116>>
Bodies ==
    { << <<>> >>, <<ShortLine, LongLine>>, <<SHA1(Name(1))>>,
      <<SHA1(Name(2)), SHA1(Name(1))>>,
      <<SHA1(Name(1)), ShortLine, SHA1(Name(2)), LongLine>> }

\* fetchWhiteList keeps the lines of exactly DigestLen characters, in order.
RECURSIVE Accepted(_)
Accepted(lines) ==
    IF lines = <<>> THEN <<>>
    ELSE (IF Len(Head(lines)) = DigestLen THEN <<Head(lines)>> ELSE <<>>)
             \o Accepted(Tail(lines))

\* Snapshots that are current now: the field's value and, while an
\* assignment to it is under way, the list being assigned.
Current == {whitelist} \cup {storing[i] : i \in 1..Len(storing)}

\* What a read of the field without the mutex can yield: the slice header
\* (data, length) of the current snapshot or, while SetWhiteList assigns the
\* field, any mix of the old and the new header's words.
Headers == { [data |-> d, len |-> Len(l)] : d \in Current, l \in Current }

\* A refresh tick: the list is fetched; a failed fetch yields the empty list.
RefreshTick ==
    /\ refPc = "idle"
    /\ ops < MaxOps
    /\ ops' = ops + 1
    /\ \/ fetched' = [failed |-> TRUE, body |-> <<>>] /\ refList' = <<>>
       \/ \E body \in Bodies :
            /\ fetched' = [failed |-> FALSE, body |-> body]
            /\ refList' = Accepted(body)
    /\ refPc' = "lock"
    /\ UNCHANGED <<procVars, connVars, whitelist, debugLog, mutex, storing, rdPc, rdHost, rdN, rdI,
                   rdResult, window, sawEmpty, denied, gList, access>>

\* SetWhiteList: p.Lock().
SetLock ==
    /\ refPc = "lock"
    /\ mutex = "free"
    /\ mutex' = "refresher"
    /\ refPc' = "store"
    /\ UNCHANGED <<procVars, connVars, whitelist, debugLog, storing, refList, fetched, rdPc,
                   rdHost, rdN, rdI, rdResult, window, sawEmpty, denied, gList, access, ops>>

\* SetWhiteList: p.whitelist = list, the first word of the slice is stored.
SetStore ==
    /\ refPc = "store"
    /\ storing' = <<refList>>
    /\ window' = IF rdPc \in {"len", "range", "index"} THEN window \cup {refList} ELSE window
    /\ access' = [task |-> "refresher", locked |-> mutex = "refresher",
                  racing |-> rdPc \in {"len", "range", "index"}]
    /\ refPc' = "stored"
    /\ UNCHANGED <<procVars, connVars, whitelist, debugLog, mutex, refList, fetched, rdPc,
                   rdHost, rdN, rdI, rdResult, sawEmpty, denied, gList, ops>>

\* An assignment that stores the fetched lines as they came.
SetStoredTakesBody ==
    /\ refPc = "stored"
    /\ whitelist' = fetched.body
    /\ storing' = <<>>
    /\ refPc' = "unlock"
    /\ UNCHANGED <<procVars, connVars, debugLog, mutex, refList, fetched, rdPc, rdHost, rdN,
                   rdI, rdResult, window, sawEmpty, denied, gList, access, ops>>

\* SetWhiteList: the last word is stored, the field holds the new list.
SetStored ==
    /\ refPc = "stored"
    /\ whitelist' = refList
    /\ storing' = <<>>
    /\ refPc' = "unlock"
    /\ UNCHANGED <<procVars, connVars, debugLog, mutex, refList, fetched, rdPc, rdHost, rdN,
                   rdI, rdResult, window, sawEmpty, denied, gList, access, ops>>

\* SetWhiteList: p.Unlock().
SetUnlock ==
    /\ refPc = "unlock"
    /\ mutex' = "free"
    /\ refPc' = "idle"
    /\ UNCHANGED <<procVars, connVars, whitelist, debugLog, storing, refList, fetched, rdPc,
                   rdHost, rdN, rdI, rdResult, window, sawEmpty, denied, gList, access, ops>>

\* A connection task calls IsWhiteListed(hostname).
Hosts == Names

IsWhiteListedCall ==
    /\ rdPc \in {"idle", "true", "false"}
    /\ ops < MaxOps
    /\ ops' = ops + 1
    /\ rdHost' \in Hosts
    /\ rdPc' = "len"
    /\ rdN' = 0 /\ rdI' = 0
    /\ window' = Current
    /\ sawEmpty' = FALSE
    /\ UNCHANGED <<procVars, connVars, whitelist, debugLog, mutex, storing, refPc, refList, fetched,
                   rdResult, denied, gList, access>>

\* The task calls GetWhiteList() instead.
GetWhiteListCall ==
    /\ rdPc \in {"idle", "true", "false"}
    /\ ops < MaxOps
    /\ ops' = ops + 1
    /\ rdPc' = "lock"
    /\ UNCHANGED <<procVars, connVars, whitelist, debugLog, mutex, storing, refPc, refList, fetched,
                   rdHost, rdN, rdI, rdResult, window, sawEmpty, denied, gList,
                   access>>

\* GetWhiteList: p.Lock().
GetLock ==
    /\ rdPc = "lock"
    /\ mutex = "free"
    /\ mutex' = "connection"
    /\ rdPc' = "copy"
    /\ UNCHANGED <<procVars, connVars, whitelist, debugLog, storing, refPc, refList, fetched, rdHost, rdN, rdI, rdResult, window, sawEmpty, denied, gList,
                   access, ops>>

\* GetWhiteList: the entries are copied, then p.Unlock() and return.
GetCopy ==
    /\ rdPc = "copy"
    /\ gList' = whitelist
    /\ access' = [task |-> "connection", locked |-> mutex = "connection",
                  racing |-> storing # <<>>]
    /\ mutex' = "free"
    /\ rdPc' = "idle"
    /\ UNCHANGED <<procVars, connVars, whitelist, debugLog, storing, refPc, refList, fetched, rdHost, rdN, rdI, rdResult, window, sawEmpty, denied, ops>>

ReadAccess == [task |-> "connection", locked |-> mutex = "connection",
               racing |-> storing # <<>>]

\* The call returns `result`.
Return(result) ==
    /\ rdPc' = IF result THEN "true" ELSE "false"
    /\ rdResult' = result
    /\ denied' = IF result THEN denied ELSE denied \cup {rdHost}

NoEntriesNeverTrue(n) == FALSE

\* len(p.whitelist) < 1
NoEntries(n) == n < 1

\* IsWhiteListed: if len(p.whitelist) < 1 { return true }
IsWhiteListedLen ==
    /\ rdPc = "len"
    /\ \E h \in Headers :
         IF NoEntries(h.len)
           THEN Return(TRUE)
           ELSE rdPc' = "range" /\ UNCHANGED <<rdResult, denied>>
    /\ sawEmpty' = (whitelist = <<>> /\ storing = <<>>)
    /\ access' = ReadAccess
    /\ UNCHANGED <<procVars, connVars, whitelist, debugLog, mutex, storing, refPc, refList, fetched,
                   rdHost, rdN, rdI, window, gList, ops>>

\* IsWhiteListed: for i := range p.whitelist, the length is read once; the
\* loop is over when it is 0 and the call returns false.
IsWhiteListedRange ==
    /\ rdPc = "range"
    /\ \E h \in Headers :
         /\ rdN' = h.len
         /\ IF h.len = 0
              THEN Return(FALSE)
              ELSE rdPc' = "index" /\ UNCHANGED <<rdResult, denied>>
    /\ rdI' = 0
    /\ access' = ReadAccess
    /\ UNCHANGED <<procVars, connVars, whitelist, debugLog, mutex, storing, refPc, refList, fetched,
                   rdHost, window, sawEmpty, gList, ops>>

FirstIndexSkipped(h, i) == i + 1 < Len(h.data) /\ h.data[i + 2] = SHA1(rdHost)

\* hash == p.whitelist[i] for an index inside the header's data.
EntryMatches(h, i) == h.data[i + 1] = SHA1(rdHost)

\* IsWhiteListed: if hash == p.whitelist[i] { return true }, the field is
\* read again.  An index not below the length that is read is a run-time
\* panic; an entry outside the data that is read is some other memory: the
\* comparison fails or the task faults.
IsWhiteListedIndex ==
    /\ rdPc = "index"
    /\ \E h \in Headers :
         IF rdI >= h.len
           THEN rdPc' = "panic" /\ UNCHANGED <<rdI, rdResult, denied>>
         ELSE IF rdI >= Len(h.data)
           THEN \/ rdPc' = "panic" /\ UNCHANGED <<rdI, rdResult, denied>>
                \/ /\ rdI' = rdI + 1
                   /\ IF rdI + 1 >= rdN
                        THEN Return(FALSE)
                        ELSE UNCHANGED <<rdPc, rdResult, denied>>
         ELSE IF EntryMatches(h, rdI)
           THEN Return(TRUE) /\ UNCHANGED rdI
         ELSE /\ rdI' = rdI + 1
              /\ IF rdI + 1 >= rdN
                   THEN Return(FALSE)
                   ELSE UNCHANGED <<rdPc, rdResult, denied>>
    /\ access' = ReadAccess
    /\ UNCHANGED <<procVars, connVars, whitelist, debugLog, mutex, storing, refPc, refList, fetched,
                   rdHost, rdN, window, sawEmpty, gList, ops>>

\* ----------------------------------------------------------- specification
\* No task is inside the store.
\* No helper was called yet.
NoHelper ==
    [name |-> "none", msg |-> "", host |-> <<>>, conn |-> "nil", ret |-> FALSE,
     calls |-> 0, closes |-> [down |-> 0, up |-> 0], logs |-> <<>>]

\* The listener of the port is bound and its loop waits in Accept.
Listening ==
    /\ doPc = "accept"
    /\ exited = FALSE
    /\ listenLog = <<>>
    /\ helper = NoHelper

IdleStore ==
    /\ mutex = "free"
    /\ storing = <<>>
    /\ refPc = "idle"
    /\ refList = <<>>
    /\ fetched = [failed |-> FALSE, body |-> <<>>]
    /\ rdPc = "idle"
    /\ rdHost = <<>>
    /\ rdN = 0
    /\ rdI = 0
    /\ rdResult = FALSE
    /\ window = {}
    /\ sawEmpty = FALSE
    /\ denied = {}
    /\ gList = <<>>
    /\ access = [task |-> "none", locked |-> TRUE, racing |-> FALSE]
    /\ ops = 0

\* One accepted connection on the HTTP or on the TLS port, the proxy holding
\* some snapshot of the whitelist.
Init ==
    /\ kind \in {"tls", "http"}
    /\ sent \in IF kind = "tls" THEN TLSStreams ELSE HTTPStreams
    /\ \E k \in Cuts(sent) : pending = Segments(sent, k)
    /\ downIn = <<>>
    /\ clientFin = FALSE
    /\ pc = IF kind = "tls" THEN "t_first" ELSE "h_read"
    /\ firstByte = <<0>>
    /\ versionBytes = <<0, 0>>
    /\ restLengthBytes = <<0, 0>>
    /\ restLength = 0
    /\ rest = <<>>
    /\ current = 0
    /\ hostname = <<>>
    /\ iterations = 0
    /\ reader = <<>>
    /\ readLines = <<>>
    /\ approved = FALSE
    /\ upstream = "nil"
    /\ upBroken = FALSE
    /\ dials = <<>>
    /\ upOut = <<>>
    /\ downOut = <<>>
    /\ replayed = 0
    /\ upPending = <<>>
    /\ upIn = <<>>
    /\ upFin = FALSE
    /\ closes = [down |-> 0, up |-> 0]
    /\ logs = <<>>
    /\ toUp = "idle"
    /\ toDown = "idle"
    /\ whitelist \in Snapshots
    /\ debugLog \in BOOLEAN
    /\ IdleStore
    /\ Listening /\ accepts = 1

Next ==
    \/ Arrive \/ ClientClose \/ UpstreamSend \/ UpstreamClose
    \/ TLSReadFirstByte \/ TLSReadVersion \/ TLSReadLength \/ TLSReadRest
    \/ TLSClientHello \/ TLSExtension \/ TLSHostnameCheck
    \/ HTTPFill \/ HTTPReadLine
    \/ CheckWhiteList
    \/ HTTPDial \/ TLSDial \/ HTTPReplay \/ TLSReplay \/ Splice
    \/ RelayUpCopy \/ RelayUpClose \/ RelayDownCopy \/ RelayDownClose

Spec == Init /\ [][Next]_vars

\* The relay tasks are goroutines of their own: each takes its next step
\* whenever that step stays possible.
RelayFairness ==
    /\ WF_vars(RelayUpCopy) /\ WF_vars(RelayUpClose)
    /\ WF_vars(RelayDownCopy) /\ WF_vars(RelayDownClose)

\* Clients whose sniffing can succeed, for the runs that reach the relay: a
\* ClientHello naming "b" and a request with a Host line, each with or
\* without bytes behind the sniffed part.
LiveStreams ==
    { Record(Handshake, 3, 1, Hello(ClientHello, <<>>, ExtBlock(<<SNIExt(Name(1))>>))) \o t :
        t \in {<<>>, <<23, 9>>} }
    \cup { Joined(<<RequestLine, HostLine(Name(1))>> \o t, <<CR, LF>>) :
             t \in {<<>>, << <<>>, OtherLine >>} }

InitLive == Init /\ sent \in LiveStreams

SpecLive == InitLive /\ [][Next]_vars /\ RelayFairness

\* No connection: the store alone, with the refresher and a task that calls
\* IsWhiteListed or GetWhiteList.  The proxy starts with
\* the empty list or with a list set at construction.
InitStore ==
    /\ kind = "none"
    /\ sent = <<>>
    /\ pending = <<>>
    /\ downIn = <<>>
    /\ clientFin = FALSE
    /\ pc = "none"
    /\ firstByte = <<0>>
    /\ versionBytes = <<0, 0>>
    /\ restLengthBytes = <<0, 0>>
    /\ restLength = 0
    /\ rest = <<>>
    /\ current = 0
    /\ hostname = <<>>
    /\ iterations = 0
    /\ reader = <<>>
    /\ readLines = <<>>
    /\ approved = FALSE
    /\ upstream = "nil"
    /\ upBroken = FALSE
    /\ dials = <<>>
    /\ upOut = <<>>
    /\ downOut = <<>>
    /\ replayed = 0
    /\ upPending = <<>>
    /\ upIn = <<>>
    /\ upFin = FALSE
    /\ closes = [down |-> 0, up |-> 0]
    /\ logs = <<>>
    /\ toUp = "idle"
    /\ toDown = "idle"
    /\ whitelist \in Snapshots \cup { <<SHA1(Name(2)), SHA1(Name(1))>> }
    /\ debugLog = TRUE
    /\ IdleStore
    /\ Listening /\ accepts = 0

NextStore ==
    \/ RefreshTick \/ SetLock \/ SetStore \/ SetStored \/ SetUnlock
    \/ GetWhiteListCall \/ GetLock \/ GetCopy
    \/ IsWhiteListedCall \/ IsWhiteListedLen \/ IsWhiteListedRange \/ IsWhiteListedIndex

SpecStore == InitStore /\ [][NextStore]_vars

\* ------------------------------------------------------------ store claims
\* The whitelist rule on one snapshot: the empty list allows every host, any
\* other list the hosts whose digest is one of its entries.
Rule(S, h) == S = <<>> \/ \E i \in 1..Len(S) : S[i] = SHA1(h)

\* A call of IsWhiteListed has returned.
Returned == rdPc \in {"true", "false"}

\* A call of IsWhiteListed has been made and has not been followed by a call
\* of GetWhiteList.
Called == rdPc \in {"len", "range", "index", "true", "false", "panic"}

\* C6: a call of IsWhiteListed(H) during which one snapshot S alone was
\* current returns true exactly when S is empty or holds the digest of H,
\* and it does not fault; the list a proxy is constructed with and never
\* replaces is such a snapshot.
C6_ResultIsTheRuleOnTheSnapshot ==
    \A S \in window :
        (Called /\ window = {S}) =>
            /\ rdPc # "panic"
            /\ Returned => ((rdPc = "true") = Rule(S, rdHost))
            /\ Returned => (rdResult = Rule(S, rdHost))

\* A call over a two-entry snapshot matched the second entry.
C6_Witness ==
    /\ rdPc = "true"
    /\ rdResult
    /\ window = { <<SHA1(Name(2)), SHA1(Name(1))>> }
    /\ rdHost = Name(1)
    /\ rdI = 1

\* C7: under every interleaving with SetWhiteList, a call of IsWhiteListed(H)
\* returns, and its result is the rule applied to one snapshot that was
\* current at some moment of the call.
C7_ResultFromOneSnapshot ==
    Called =>
        /\ rdPc # "panic"
        /\ Returned => \E S \in window : rdResult = Rule(S, rdHost)

\* C8: every access to the whitelist field is made with the mutex held by
\* the accessing task, and no read of the field overlaps the assignment in
\* SetWhiteList.
C8_AccessUnderMutex == access.locked /\ ~access.racing

\* The refresh in progress or last made pushed the list of a failed fetch or
\* of a body without an accepted line.
EmptyFetch == fetched.failed \/ Accepted(fetched.body) = <<>>

\* C9: a refresh whose fetch fails or yields no accepted line pushes the
\* empty list with SetWhiteList, and a call of IsWhiteListed whose first
\* read of the field finds that empty list current returns true, whatever
\* the host and whether or not it was refused before.
C9_FailOpen ==
    /\ (refPc # "idle" /\ EmptyFetch) => refList = <<>>
    /\ (refPc = "unlock" /\ EmptyFetch) => whitelist = <<>>
    /\ (Called /\ sawEmpty) => (rdPc = "true" /\ rdResult)

\* A host that was refused is allowed after a refresh that pushed the empty
\* list in place of a non-empty one.
C9_Witness ==
    /\ rdPc = "true"
    /\ rdHost \in denied
    /\ sawEmpty
    /\ EmptyFetch
    /\ refPc = "idle"
    /\ whitelist = <<>>

\* ------------------------------------------------------ connection claims
\* The relay tasks have been started.
Spliced == toUp # "idle" \/ toDown # "idle"

\* The handler has returned without starting the relay tasks.
EndedBeforeSplice == pc = "done" /\ ~Spliced

C2_ClosedExactlyOnceBeforeSplice ==
    EndedBeforeSplice =>
        /\ closes.down = 1
        /\ closes.up = (IF upstream = "open" THEN 1 ELSE 0)

\* C3: whatever bytes the client sends on the TLS port, the handler never
\* indexes the record body outside its bounds (it never panics).
C3_NeverPanics == pc # "panic"

\* C4: when the record body that is parsed is a well-formed ClientHello
\* whose server_name extension holds one non-empty host_name, wherever the
\* extension sits, the parse does not fail and the hostname it yields is
\* that name.
C4_HostnameIsServerName ==
    \A w \in WellFormed :
        (kind = "tls" /\ pc \notin {"t_first", "t_version", "t_length", "t_rest"}
            /\ rest = Drop(w.bytes, 5)) =>
            /\ pc # "panic"
            /\ pc \notin {"t_hello", "t_ext"} => hostname = w.name

\* The name found behind another extension, a session id in front.
C4_Witness ==
    /\ kind = "tls" /\ pc = "whitelist"
    /\ rest = Hello(ClientHello, <<9>>, ExtBlock(<<OtherExt, SNIExt(Name(2)), OtherExt>>))
    /\ hostname = Name(2)
    /\ iterations = 2

\* C5: on the TLS success path the bytes written to upstream by the replay
\* are the first 5+L bytes the client sent.
C5_ReplayEqualsRecord ==
    (kind = "tls" /\ replayed > 0) => Take(upOut, replayed) = Take(sent, 5 + restLength)

\* The lines of a byte stream, without their line ends.
RECURSIVE SplitLines(_)
SplitLines(s) ==
    IF s = <<>> THEN <<>>
    ELSE IF HasLF(s)
      THEN LET k == FirstLF(s)
               e == IF k > 1 /\ s[k - 1] = CR THEN k - 2 ELSE k - 1
           IN  <<SubSeq(s, 1, e)>> \o SplitLines(Drop(s, k))
      ELSE <<s>>

\* The request has a line "Host: X" in front of the first blank line.
HasHostHeader(lines) ==
    \E i \in 1..Len(lines) :
        /\ IsPrefix(HostPrefix, lines[i])
        /\ \A j \in 1..(i - 1) : lines[j] # <<>>

FirstHostHeader(lines) ==
    LET i == CHOOSE i \in 1..Len(lines) :
                 /\ IsPrefix(HostPrefix, lines[i])
                 /\ \A j \in 1..(i - 1) : ~IsPrefix(HostPrefix, lines[j])
    IN  Drop(lines[i], Len(HostPrefix))

\* C10: a connection dials at most once, and exactly once when it has passed
\* the dial step; the address is "www." + hostname + ":80" for HTTP, with
\* the hostname of the request's first Host line, and "www." + hostname +
\* ":443" for TLS, with the sniffed server name; what the client sends
\* behind the sniffed bytes does not change it.
C10_DialsOnceTheSniffedHost ==
    /\ Len(dials) <= 1
    /\ (pc \in {"replay", "splice"} \/ Spliced) => Len(dials) = 1
    /\ (pc \in {"t_first", "t_version", "t_length", "t_rest", "t_hello", "t_ext",
                "h_read", "whitelist", "dial"}) => dials = <<>>
    /\ (kind = "http" /\ dials # <<>>) =>
          /\ dials[1] = Www \o hostname \o Port80
          /\ HasHostHeader(SplitLines(sent)) =>
                dials[1] = Www \o FirstHostHeader(SplitLines(sent)) \o Port80
    /\ (kind = "tls" /\ dials # <<>>) =>
          /\ dials[1] = Www \o hostname \o Port443
          /\ \A w \in WellFormed :
                rest = Drop(w.bytes, 5) => dials[1] = Www \o w.name \o Port443

\* An HTTP request for "ba" with more lines behind the Host line, spliced.
C10_Witness ==
    /\ kind = "http" /\ Spliced
    /\ dials = << Www \o Name(2) \o Port80 >>
    /\ Len(SplitLines(sent)) > Len(readLines)
    /\ Len(upOut) > replayed

\* The HTTP handler has finished a replay in which every Write succeeded.
HTTPReplayed ==
    kind = "http" /\ upstream = "open" /\ ~upBroken /\ (pc = "splice" \/ Spliced)

\* C11: on the HTTP success path the captured lines are the first lines of
\* the client's stream in the order they were sent, and the bytes the replay
\* writes to upstream are these lines, each followed by one "\n" and nothing
\* else.
C11_ReplayIsCapturedLines ==
    HTTPReplayed =>
        /\ readLines = Take(SplitLines(sent), Len(readLines))
        /\ Take(upOut, replayed) = Joined(readLines, <<LF>>)

\* Three lines sent with CRLF were captured and replayed.
C11_Witness ==
    /\ HTTPReplayed
    /\ readLines = <<RequestLine, OtherLine, HostLine(Name(2))>>
    /\ \E i \in 1..Len(sent) : sent[i] = CR
    /\ replayed = Len(Joined(readLines, <<LF>>))

\* Every line end of the stream is CRLF.
UsesCRLF(s) == \A i \in 1..Len(s) : s[i] = LF => (i > 1 /\ s[i - 1] = CR)

\* C12: for a request sent with CRLF line ends, what upstream has received -
\* the replay, then the relayed bytes - is at every moment the beginning of
\* what the client sent, byte for byte.
C12_UpstreamReceivesWhatClientSent ==
    (kind = "http" /\ UsesCRLF(sent) /\ ~upBroken) => IsPrefix(upOut, sent)

\* Some line of the log has the message `msg`.
Logged(msg) == \E i \in 1..Len(logs) : logs[i].msg = msg

\* The handler has returned without approval and without a failure of the
\* sniffing, which would have logged a line with no type tag: the whitelist
\* step has ended the connection.
Rejected ==
    pc = "done" /\ ~approved /\ \A i \in 1..Len(logs) : logs[i].type # ""

C14_NoServerNameClosesDownstream ==
    (kind = "tls" /\ pc = "done"
        /\ Logged("TLS header parsing problem - no hostname found.")) =>
        /\ closes.down = 1
        /\ dials = <<>>

\* C15: in the TLS handler an empty hostname and the hostname "127.0.0.1"
\* never reach the whitelist check or the dial, whatever the snapshot.
C15_LoopbackRejected ==
    (kind = "tls" /\ pc \notin {"t_first", "t_version", "t_length", "t_rest", "t_hello", "t_ext"}
        /\ hostname \in {<<>>, Loopback}) =>
        /\ pc \notin {"whitelist", "dial", "replay", "splice"}
        /\ ~approved
        /\ dials = <<>>

\* C16: a handler that has returned has written exactly one line to the
\* log, whether the debug flag is set or not.
C16_OneLogLinePerConnection == pc = "done" => Len(logs) = 1

\* The bytes captured while sniffing, as the replay writes them.
Captured ==
    IF kind = "tls" THEN firstByte \o versionBytes \o restLengthBytes \o rest
    ELSE Joined(readLines, <<LF>>)

\* C17: no relay task runs before the handler has passed the replay, nothing
\* is written to upstream before the replay, and when the relay tasks are
\* started after a replay whose Writes succeeded, upstream has received all
\* captured bytes, in capture order, in front of every relayed byte.
C17_ReplayBeforeRelay ==
    /\ pc # "done" => ~Spliced
    /\ pc \notin {"splice", "done"} => upOut = <<>>
    /\ ((pc = "splice" \/ Spliced) /\ ~upBroken) =>
          /\ replayed = Len(Captured)
          /\ Take(upOut, replayed) = Captured

\* A TLS connection: the record was replayed, then bytes were relayed.
C17_Witness ==
    /\ kind = "tls" /\ Spliced /\ ~upBroken
    /\ replayed = 5 + restLength
    /\ Len(upOut) > replayed
    /\ Take(upOut, replayed) = Captured

\* C18: when a Write of the replay has failed, the relay tasks are not
\* started and the handler returns with both sockets closed and the reason
\* logged behind the access line.
C18_FailedReplayEndsConnection ==
    upBroken =>
        /\ ~Spliced
        /\ pc = "done" => (closes.down = 1 /\ closes.up = 1 /\ Len(logs) > 1)

\* A relay task has seen the end of its source, or an error.
RelayEnding == toUp \in {"close", "done"} \/ toDown \in {"close", "done"}

\* Both relay tasks have returned and both sockets are closed.
RelaysEnded ==
    toUp = "done" /\ toDown = "done" /\ closes.down >= 1 /\ closes.up >= 1

RelayedUp == Drop(upOut, replayed)

\* What is left of a stream behind its first `n` lines.
RECURSIVE AfterLines(_, _)
AfterLines(s, n) ==
    IF n = 0 THEN s
    ELSE IF HasLF(s) THEN AfterLines(Drop(s, FirstLF(s)), n - 1)
    ELSE <<>>

\* C20: during the splice the bytes relayed to upstream are the beginning
\* of what the client sent behind the sniffed part - for HTTP behind the
\* captured lines, for TLS behind the bytes the sniffer's reads took (at
\* most the record; while the copy runs, nothing lies between them, the
\* relayed bytes and the bytes not read yet) - and the bytes relayed to
\* downstream are the beginning of what the upstream server sent.
C20_RelayIsPrefixOfSource ==
    /\ (kind = "http" /\ Spliced) =>
          IsPrefix(RelayedUp, AfterLines(sent, Len(readLines)))
    /\ (kind = "tls" /\ Spliced) =>
          \E k \in 1..(5 + restLength) :
              /\ IsPrefix(RelayedUp, Drop(sent, k))
              /\ toUp = "copy" =>
                    sent = Take(sent, k) \o RelayedUp \o downIn \o Flatten(pending)
    /\ \E r \in Replies : IsPrefix(downOut, Flatten(r))
    /\ ~Spliced => (Len(upOut) = replayed \/ pc = "replay") /\ downOut = <<>>

\* An HTTP connection: everything behind the captured lines has been
\* relayed to upstream and the server's answer to downstream.
C20_Witness ==
    /\ kind = "http" /\ Spliced
    /\ RelayedUp # <<>>
    /\ RelayedUp = AfterLines(sent, Len(readLines))
    /\ downOut = <<72, 84>>

\* Number of bytes the handler has read from the downstream socket, while
\* no relay task reads it.
TakenFromSocket == Len(sent) - Len(Flatten(pending)) - Len(downIn)

\* The TLS handler is behind the read of the record body and has not
\* returned: it parses, checks the whitelist, dials or replays.
BehindBodyRead ==
    kind = "tls" /\ pc \in {"t_hello", "t_ext", "whitelist", "dial", "replay", "splice", "panic"}

\* C24: the TLS handler goes on behind the read of the record body only if
\* that read returned all L bytes: with the 5 header bytes read in full, the
\* bytes taken from the socket are then the 5+L bytes of the record.
C24_ShortBodyReadIsFailure ==
    (BehindBodyRead /\ firstByte \o versionBytes \o restLengthBytes = Take(sent, 5)
        /\ TakenFromSocket >= 5) =>
        TakenFromSocket = 5 + restLength

\* The log lines of the TLS sniffer's read errors and failed validations.
ReadErrors ==
    { "TLS header parsing problem - couldn't read first byte.",
      "TLS header parsing problem - couldn't read version bytes.",
      "TLS header parsing problem - couldn't read restLength bytes:",
      "TLS header parsing problem - couldn't read rest of bytes:" }

ValidationFailures ==
    { "TLS header parsing problem - not TLS.",
      "TLS header parsing problem - SSL < 3.1, SNI not supported.",
      "TLS header parsing problem - not a ClientHello.",
      "TLS header parsing problem - not a hostname." }

\* C25: when a step of the TLS sniffer has failed - a read error or a failed
\* validation - the handler has returned at that step: the failure is the
\* only log line, the buffers of the later steps are untouched, no hostname
\* was found, nothing was dialed or written and no relay task reads on.
C25_FailureAbortsAtItsStep ==
    \A m \in ReadErrors \cup ValidationFailures :
        (kind = "tls" /\ Logged(m)) =>
            /\ pc = "done" /\ ~Spliced /\ ~approved
            /\ Len(logs) = 1
            /\ hostname = <<>> /\ dials = <<>> /\ upOut = <<>> /\ upstream = "nil"
            /\ m \in { "TLS header parsing problem - couldn't read first byte.",
                        "TLS header parsing problem - not TLS." } =>
                  (versionBytes = <<0, 0>> /\ TakenFromSocket <= 1)
            /\ m \in { "TLS header parsing problem - couldn't read first byte.",
                        "TLS header parsing problem - not TLS.",
                        "TLS header parsing problem - couldn't read version bytes.",
                        "TLS header parsing problem - SSL < 3.1, SNI not supported." } =>
                  (restLengthBytes = <<0, 0>> /\ rest = <<>> /\ TakenFromSocket <= 3)
            /\ m \in ReadErrors \cup { "TLS header parsing problem - not TLS.",
                        "TLS header parsing problem - SSL < 3.1, SNI not supported.",
                        "TLS header parsing problem - not a ClientHello." } =>
                  iterations = 0

\* A record of version 3.0 was refused once its version bytes were read,
\* with bytes of the record left unread.
C25_Witness ==
    /\ kind = "tls" /\ pc = "done"
    /\ Logged("TLS header parsing problem - SSL < 3.1, SNI not supported.")
    /\ versionBytes = <<3, 0>>
    /\ downIn # <<>>

\* The line begins with the six bytes of "Host: ", capital H.
StartsWithHost(line) ==
    Len(line) >= 6 /\ SubSeq(line, 1, 6) = <<72, 111, 115, 116, 58, 32>>

\* The line ends the HTTP sniffer's loop.
StopsSniff(line) == line = <<>> \/ StartsWithHost(line)

\* The HTTP sniffer has left its loop without a read error.
HTTPSniffed ==
    kind = "http" /\ (pc \in {"whitelist", "dial", "replay", "splice"} \/ approved
                        \/ (pc = "done" /\ ~Logged("Error reading from connection:")))

\* C26: when the HTTP sniffer has left its loop, the captured lines are the
\* first lines of the stream up to and including the first line that is
\* blank or begins with "Host: " in exactly this case; none of the lines in
\* front of it is such a line, the hostname is what follows "Host: " on it,
\* and until the relay starts no byte behind that line was taken out of the
\* reader or the socket.
C26_SniffStopsAtFirstHostOrBlank ==
    HTTPSniffed =>
        LET n == Len(readLines)
        IN  /\ n >= 1
            /\ readLines = Take(SplitLines(sent), n)
            /\ StopsSniff(readLines[n])
            /\ \A i \in 1..(n - 1) : ~StopsSniff(readLines[i])
            /\ hostname = IF StartsWithHost(readLines[n]) THEN Drop(readLines[n], 6)
                          ELSE <<>>
            /\ pc # "done" =>
                  reader \o downIn \o Flatten(pending) = AfterLines(sent, n)

\* The sniffer went past a line "host: b" in lower case and stopped at the
\* blank line behind it, leaving the line "Host: a" that follows unread.
C26_Witness ==
    /\ HTTPSniffed /\ pc = "whitelist"
    /\ Len(readLines) >= 2
    /\ readLines[Len(readLines) - 1] = LowerHostLine
    /\ readLines[Len(readLines)] = <<>>
    /\ hostname = <<>>
    /\ StartsWithHost(AfterLines(sent, Len(readLines)))

\* The HTTP sniffer has left its loop at a blank line: the headers ended
\* before any Host line.
EndedAtBlankLine ==
    HTTPSniffed /\ readLines # <<>> /\ readLines[Len(readLines)] = <<>>

\* The dial has failed: an address was dialed and there is no upstream.
DialFailed == dials # <<>> /\ upstream = "nil"

\* C27: when the headers end before any Host line the hostname is empty and
\* the HTTP handler does not take the request for invalid: it goes on to
\* the whitelist step and, once approved, dials "www.:80" and nothing else;
\* when that dial fails, the log has the access line and the connect error
\* and no read error.
C27_BlankLineDialsEmptyHost ==
    EndedAtBlankLine =>
        /\ hostname = <<>>
        /\ ~Logged("Error reading from connection:")
        /\ pc = "done" => (approved \/ Logged("Hostname is not whitelisted")
                             \/ (whitelist # <<>> /\ ~debugLog))
        /\ whitelist = <<>> => (pc = "done" => approved)
        /\ (approved /\ pc # "dial") => dials = << Www \o Port80 >>
        /\ DialFailed =>
              /\ Len(logs) = 2
              /\ logs[1].msg = RemoteAddr /\ logs[1].host = <<>>
              /\ logs[2].msg = "Couldn't connect to backend:"

\* A request without Host line was approved, "www.:80" was dialed and the
\* dial failed.
C27_Witness ==
    /\ EndedAtBlankLine /\ approved /\ pc = "done"
    /\ dials = << Www \o Port80 >>
    /\ DialFailed
    /\ Logged("Couldn't connect to backend:")

\* C28: when the dial fails, the handler has written no byte to downstream,
\* has closed downstream once and has returned, no relay task was started,
\* nothing was written to upstream, and the log contains "Couldn't connect
\* to backend".
C28_DialFailureClosesDownstream ==
    DialFailed =>
        /\ Logged("Couldn't connect to backend:")
        /\ pc = "done"
        /\ downOut = <<>> /\ upOut = <<>>
        /\ closes.down = 1 /\ closes.up = 0
        /\ toUp = "idle" /\ toDown = "idle"

\* A TLS connection whose dial of the sniffed name has failed, with bytes
\* of the client left unread.
C28_Witness ==
    /\ kind = "tls" /\ DialFailed
    /\ hostname = Name(1)
    /\ dials = << Www \o Name(1) \o Port443 >>
    /\ closes.down = 1
    /\ downIn # <<>>

\* The pair (major, minor) is at least (3, 1) in lexicographic order.
AtLeastTLS10(v) == v[1] > 3 \/ (v[1] = 3 /\ v[2] >= 1)

\* The TLS handler has read a handshake record's type and both version
\* bytes' Read has returned without error.
VersionChecked ==
    /\ kind = "tls" /\ pc \notin {"t_first", "t_version"}
    /\ ~Logged("TLS header parsing problem - couldn't read first byte.")
    /\ ~Logged("TLS header parsing problem - not TLS.")
    /\ ~Logged("TLS header parsing problem - couldn't read version bytes.")

\* C29: the version check lets a record pass exactly when the pair of its
\* version bytes is at least (3, 1) in lexicographic order; every other
\* record ends with "SSL < 3.1" logged and downstream closed.
C29_VersionAcceptedIffAtLeast31 ==
    VersionChecked =>
        /\ AtLeastTLS10(versionBytes) <=>
              ~Logged("TLS header parsing problem - SSL < 3.1, SNI not supported.")
        /\ ~AtLeastTLS10(versionBytes) =>
              (pc = "done" /\ closes.down = 1 /\ dials = <<>>)

\* A record of version 4.0 has passed the version check.
C29_Witness ==
    /\ VersionChecked
    /\ versionBytes = <<4, 0>>
    /\ pc = "t_length"
    /\ Take(sent, 3) = <<Handshake, 4, 0>>

\* C30: a ClientHello whose body ends behind the compression methods, with
\* no extensions block, ends with "no extensions" logged, downstream closed
\* and no dial.
C30_NoExtensionsBlockRejected ==
    (kind = "tls" /\ pc = "done" /\ rest = Hello(ClientHello, <<>>, <<>>)) =>
        /\ Logged("TLS header parsing problem - no extensions.")
        /\ closes.down = 1
        /\ dials = <<>>

\* A line of exactly 40 characters.
HasDigestLength(line) == Len(line) = 40

MaxCalls == 2

\* Arguments of the calls: a message, a hostname or none, a connection or nil.
HelperMsgs == { "Hostname is not whitelisted", "Error when closing connection" }
HelperHosts == { <<>>, Name(1) }
Conns == { "nil", "down", "up" }

\* A helper was called: the log and the close counters are those it leaves,
\* the call, the value it returned and the state it found are recorded.
HelperCall(name, st, msg, host, conn) ==
    /\ helper.calls < MaxCalls
    /\ closes' = st.closes
    /\ logs' = st.logs
    /\ helper' = [name |-> name, msg |-> msg, host |-> host, conn |-> conn,
                  ret |-> st.ret, calls |-> helper.calls + 1,
                  closes |-> closes, logs |-> logs]
    /\ UNCHANGED <<upBroken, kind, sent, pending, downIn, clientFin, pc, firstByte,
                   versionBytes, restLengthBytes, restLength, rest, current, hostname,
                   iterations, reader, readLines, approved, upstream, dials, upOut,
                   downOut, replayed, upPending, upIn, upFin, toUp, toDown, whitelist,
                   debugLog, storeVars, doPc, exited, accepts, listenLog>>

CallLogError ==
    \E msg \in HelperMsgs, host \in HelperHosts, conn \in Conns :
        HelperCall("LogError",
                   LogError([closes |-> closes, logs |-> logs], msg, host, conn),
                   msg, host, conn)

CallLogDebug ==
    \E msg \in HelperMsgs, host \in HelperHosts, conn \in Conns :
        HelperCall("LogDebug",
                   LogDebug([closes |-> closes, logs |-> logs], msg, host, conn),
                   msg, host, conn)

CallLogAccess ==
    \E host \in HelperHosts, conn \in Conns :
        HelperCall("LogAccess",
                   LogAccess([closes |-> closes, logs |-> logs], host),
                   "connected", host, conn)

\* No connection is being served: every variable of a connection but `kind`.
IdleConnection ==
    /\ sent = <<>>
    /\ pending = <<>>
    /\ downIn = <<>>
    /\ clientFin = FALSE
    /\ pc = "none"
    /\ firstByte = <<0>>
    /\ versionBytes = <<0, 0>>
    /\ restLengthBytes = <<0, 0>>
    /\ restLength = 0
    /\ rest = <<>>
    /\ current = 0
    /\ hostname = <<>>
    /\ iterations = 0
    /\ reader = <<>>
    /\ readLines = <<>>
    /\ approved = FALSE
    /\ upstream = "nil"
    /\ upBroken = FALSE
    /\ dials = <<>>
    /\ upOut = <<>>
    /\ downOut = <<>>
    /\ replayed = 0
    /\ upPending = <<>>
    /\ upIn = <<>>
    /\ upFin = FALSE
    /\ closes = [down |-> 0, up |-> 0]
    /\ logs = <<>>
    /\ toUp = "idle"
    /\ toDown = "idle"

\* The helpers alone, called on two open connections or on none, with the
\* debug flag set or not.
InitLog ==
    /\ kind = "none"
    /\ IdleConnection
    /\ whitelist = <<>>
    /\ debugLog \in BOOLEAN
    /\ IdleStore
    /\ Listening /\ accepts = 0

NextLog == CallLogError \/ CallLogDebug \/ CallLogAccess

SpecLog == InitLog /\ [][NextLog]_vars

\* ------------------------------------------------------------------ doProxy
\* Passes through the accept loop in one run.
MaxAccepts == 2

\* The process runs: main has not exited and no goroutine has panicked.
ProcessRunning == ~exited /\ pc # "panic" /\ rdPc # "panic"

\* net.Listen: the port is bound, or the error is logged and doProxy returns
\* into the deferred reportError.
Listen ==
    /\ doPc = "listen"
    /\ ProcessRunning
    /\ \E ok \in BOOLEAN :
         IF ok THEN /\ listenLog' = Append(listenLog, "Started proxy on")
                    /\ doPc' = "accept"
               ELSE /\ listenLog' = Append(listenLog, "Couldn't start listening:")
                    /\ doPc' = "report"
    /\ UNCHANGED <<connVars, whitelist, debugLog, storeVars, exited, accepts, helper>>

\* reportError sends on errChan; main receives and calls os.Exit(1).
ReportError ==
    /\ doPc = "report"
    /\ ProcessRunning
    /\ doPc' = "returned"
    /\ exited' = TRUE
    /\ UNCHANGED <<connVars, whitelist, debugLog, storeVars, accepts, listenLog, helper>>

\* listener.Accept returns an error: it is logged and the loop goes on.
AcceptError ==
    /\ doPc = "accept"
    /\ ProcessRunning
    /\ accepts < MaxAccepts
    /\ accepts' = accepts + 1
    /\ listenLog' = Append(listenLog, "Accept error:")
    /\ UNCHANGED <<connVars, whitelist, debugLog, storeVars, doPc, exited, helper>>

\* Clients of the connections the loop accepts: a ClientHello naming "b", one
\* without server name, a record of version 3.0, a record with an empty
\* body; a request with a Host line, one without, and a client that sends
\* nothing.
ListenStreams(k) ==
    IF k = "tls"
      THEN { Record(Handshake, 3, 1, Hello(ClientHello, <<>>, ExtBlock(<<SNIExt(Name(1))>>)))
                 \o <<23, 9>>,
             Record(Handshake, 3, 1, Hello(ClientHello, <<>>, ExtBlock(<<OtherExt>>))),
             Record(Handshake, 3, 0, Hello(ClientHello, <<>>, <<>>)),
             Record(Handshake, 3, 1, <<>>) }
      ELSE { Joined(<<RequestLine, HostLine(Name(1)), <<>>, OtherLine>>, <<CR, LF>>),
             Joined(<<RequestLine, <<>> >>, <<CR, LF>>),
             <<>> }

\* The handler of the last accepted connection has returned and its relay
\* tasks, if any, have ended.
ConnectionOver ==
    /\ pc \in {"none", "done"}
    /\ toUp \in {"idle", "done"}
    /\ toDown \in {"idle", "done"}

\* listener.Accept returns a connection and `go handle(connection)` starts
\* its handler.  The connections are followed one after the other: the next
\* one is taken when the last one is over.
Accept ==
    /\ doPc = "accept"
    /\ ProcessRunning
    /\ accepts < MaxAccepts
    /\ ConnectionOver
    /\ accepts' = accepts + 1
    /\ sent' \in ListenStreams(kind)
    /\ pending' = Segments(sent', 0)
    /\ downIn' = <<>>
    /\ clientFin' = FALSE
    /\ pc' = IF kind = "tls" THEN "t_first" ELSE "h_read"
    /\ firstByte' = <<0>>
    /\ versionBytes' = <<0, 0>>
    /\ restLengthBytes' = <<0, 0>>
    /\ restLength' = 0
    /\ rest' = <<>>
    /\ current' = 0
    /\ hostname' = <<>>
    /\ iterations' = 0
    /\ reader' = <<>>
    /\ readLines' = <<>>
    /\ approved' = FALSE
    /\ upstream' = "nil"
    /\ upBroken' = FALSE
    /\ dials' = <<>>
    /\ upOut' = <<>>
    /\ downOut' = <<>>
    /\ replayed' = 0
    /\ upPending' = <<>>
    /\ upIn' = <<>>
    /\ upFin' = FALSE
    /\ closes' = [down |-> 0, up |-> 0]
    /\ logs' = <<>>
    /\ toUp' = "idle"
    /\ toDown' = "idle"
    /\ UNCHANGED <<kind, whitelist, debugLog, storeVars, doPc, exited, listenLog, helper>>

\* doProxy is started for the HTTP or for the TLS port.
InitListen ==
    /\ kind \in {"tls", "http"}
    /\ IdleConnection
    /\ whitelist \in Snapshots
    /\ debugLog \in BOOLEAN
    /\ IdleStore
    /\ doPc = "listen"
    /\ exited = FALSE
    /\ accepts = 0
    /\ listenLog = <<>>
    /\ helper = NoHelper

NextListen ==
    \/ Listen \/ ReportError \/ AcceptError \/ Accept
    \/ Arrive \/ ClientClose \/ UpstreamSend \/ UpstreamClose
    \/ TLSReadFirstByte \/ TLSReadVersion \/ TLSReadLength \/ TLSReadRest
    \/ TLSClientHello \/ TLSExtension \/ TLSHostnameCheck
    \/ HTTPFill \/ HTTPReadLine
    \/ CheckWhiteList
    \/ HTTPDial \/ TLSDial \/ HTTPReplay \/ TLSReplay \/ Splice
    \/ RelayUpCopy \/ RelayUpClose \/ RelayDownCopy \/ RelayDownClose

SpecListen == InitListen /\ [][NextListen]_vars

\* C22: while the port's listener is bound the process runs and the loop is
\* in Accept, whatever has happened to the connections it has accepted, and
\* main exits through the error channel only when the bind has failed.
C22_BoundListenerKeepsAccepting ==
    /\ doPc = "accept" => ProcessRunning
    /\ exited => (accepts = 0 /\ listenLog = <<"Couldn't start listening:">>)

\* The close counters after the helper's Close of `conn`, if it is not nil.
ClosedOnce(c, conn) == IF conn = "nil" THEN c ELSE [c EXCEPT ![conn] = @ + 1]

\* C23: LogError writes its line, closes the connection it was given unless
\* that is nil and returns false; LogAccess writes its line, closes nothing
\* and returns true; LogDebug writes its line only when the debug flag is
\* set and, whether it is set or not, closes the connection unless it is nil
\* and returns false.
C23_HelperEffects ==
    LET before == Len(helper.logs)
    IN  /\ helper.name = "LogError" =>
              /\ helper.ret = FALSE
              /\ closes = ClosedOnce(helper.closes, helper.conn)
              /\ Take(logs, before + 1) =
                    Append(helper.logs, Line("ERROR", helper.msg, helper.host))
        /\ helper.name = "LogAccess" =>
              /\ helper.ret = TRUE
              /\ closes = helper.closes
              /\ logs = Append(helper.logs, Line("ACCESS", "connected", helper.host))
        /\ helper.name = "LogDebug" =>
              /\ helper.ret = FALSE
              /\ closes = ClosedOnce(helper.closes, helper.conn)
              /\ debugLog =>
                    Take(logs, before + 1) =
                        Append(helper.logs, Line("DEBUG", helper.msg, helper.host))
              /\ ~debugLog => logs = helper.logs

\* With the debug flag off LogDebug was called on a connection that
\* LogError had closed: it wrote nothing and closed the connection again.
C23_Witness ==
    /\ helper.name = "LogDebug" /\ helper.conn = "down" /\ ~debugLog
    /\ helper.ret = FALSE
    /\ helper.closes.down = 1 /\ closes.down = 2
    /\ Len(helper.logs) = 1 /\ helper.logs[1].type = "ERROR"
    /\ logs = helper.logs

\* The hellos that differ only in the declared data length D of their
\* server_name extension, which names "b": D = 5+N, D larger, D smaller.
DeclaredLengths == {6, 9, 2}

SameButDataLength ==
    [ d \in DeclaredLengths |->
        { Hello(ClientHello, <<>>,
                ExtBlock(Rep(k, OtherExt) \o <<Ext(0, d, SNIData(0, 1, Name(1))), OtherExt>>)) :
            k \in 0..MaxBefore } ]

\* The extension loop of the TLS handler is behind it.
BehindExtensions == kind = "tls" /\ pc \notin {"t_first", "t_version", "t_length", "t_rest",
                                                "t_hello", "t_ext"}

\* C31: whatever data length D the server_name extension declares, the
\* hostname is the N bytes behind the name length field: the hellos that
\* differ only in D all yield the hostname "b" and, when they dial, the
\* address "www.b:443".
C31_HostnameIndependentOfDataLength ==
    \A d \in DeclaredLengths :
        (kind = "tls" /\ pc \notin {"t_first", "t_version", "t_length", "t_rest", "t_hello"}
            /\ rest \in SameButDataLength[d]) =>
            /\ pc # "panic"
            /\ iterations > 0 /\ pc # "t_ext" => hostname = Name(1)
            /\ BehindExtensions => hostname = Name(1)
            /\ dials \in { <<>>, << Www \o Name(1) \o Port443 >> }

\* The hello that declares 2 bytes of data, fewer than the name encoding
\* takes, has dialed "www.b:443".
C31_Witness ==
    /\ hostname = Name(1)
    /\ rest \in SameButDataLength[2]
    /\ dials = << Www \o Name(1) \o Port443 >>

\* Hellos whose only server_name extension has an empty name.
EmptyNameBodies ==
    { Hello(ClientHello, <<>>, ExtBlock(Rep(k, OtherExt) \o t)) :
        k \in 0..MaxBefore,
        t \in { <<SNIExt(<<>>)>>, <<SNIExt(<<>>), OtherExt>>, <<SNIExt(<<>>), HidingExt>> } }

\* C32: for a hello whose server_name extension has an empty name and that
\* has no server_name extension with a name, no hostname is ever found: the
\* handler ends with "no hostname found" and dials nothing.
C32_EmptyNameFindsNoHostname ==
    (kind = "tls" /\ rest \in EmptyNameBodies) =>
        /\ hostname = <<>>
        /\ dials = <<>>
        /\ pc \notin {"t_rest", "t_hello", "t_ext"} =>
              (pc = "done" /\ Logged("TLS header parsing problem - no hostname found."))

\* The cursor at which the extension loop starts.
ExtensionsStart == HelloParse(rest).current

\* A pass through the extension loop that has not run out of the buffer.
LoopPass == pc = "t_ext" /\ iterations' = iterations + 1 /\ pc' # "panic"

\* C33: the extension loop ends: every pass moves the cursor forward by at
\* least 4 bytes, the cursor never moves backward, and the number of passes
\* stays within L/4.
C33_ExtensionLoopTerminates ==
    /\ [](kind = "tls" =>
            /\ 4 * iterations <= restLength
            /\ (iterations > 0 /\ pc # "panic") =>
                  current >= ExtensionsStart + 4 * iterations)
    /\ [][(LoopPass => current' >= current + 4)
           /\ (pc = "t_ext" => current' >= current)]_vars

\* Two passes, over an extension of another type and over the server_name
\* extension, have found the hostname and ended the loop.
C33_Witness ==
    /\ kind = "tls" /\ pc = "whitelist"
    /\ iterations = 2
    /\ hostname = Name(2)
    /\ current >= ExtensionsStart + 4 * iterations

\* The log holds the access line of the connection: the client's remote
\* address with the sniffed hostname.
AccessLogged ==
    \E i \in 1..Len(logs) :
        (logs[i].msg = RemoteAddr \/ logs[i].type = "ACCESS") /\ logs[i].host = hostname

\* C34: the log holds an access line only for a connection that was
\* approved, whose dial succeeded, whose replay was written and whose relay
\* tasks were started; a connection whose dial has failed or whose hostname
\* was rejected has none.
C34_AccessLineOnlyAfterSplice ==
    /\ AccessLogged => (approved /\ upstream = "open" /\ Spliced)
    /\ (DialFailed \/ Rejected) => ~AccessLogged

\* The relay to downstream has ended and downstream is closed, or is about
\* to be; likewise the relay to upstream.
DownRelayEnded == toDown \in {"close", "done"}
UpRelayEnded == toUp \in {"close", "done"}

\* C35: when a relay task has ended, every byte its source has produced
\* was written to its destination: nothing the upstream server has sent is
\* left unread when downstream is closed, and nothing the client has sent
\* is left unread when upstream is closed, whichever side ended first.
C35_RelayDeliversAllBeforeClose ==
    (Spliced /\ ~upBroken) =>
        /\ DownRelayEnded => upIn = <<>>
        /\ UpRelayEnded => (downIn = <<>> /\ reader = <<>>)
====
